---- MODULE Spec2Model ----
(***************************************************************************)
(* monKEYmash client: the MultiplayerRace component (socket handlers, lobby *)
(* and race state), the TypingInterface it renders while racing, and the   *)
(* part of App that mounts and unmounts it.                                *)
(*                                                                         *)
(* Conventions.                                                            *)
(*  - A JavaScript string is a sequence of one-character strings.          *)
(*  - Date.now() is the variable now, in milliseconds.  A duration the     *)
(*    code divides by 1000 is kept in milliseconds (field timeTakenMs), so *)
(*    that no fraction is lost.                                            *)
(*  - A JavaScript value that a validation inspects (stats.wpm,            *)
(*    stats.accuracy, progress) is a record [t, v]: t is "number", "NaN"   *)
(*    (typeof 'number' but isNaN) or "undefined"; v is the number.         *)
(*  - null is NULL for numbers, NoError for the error message, and the     *)
(*    empty sequence NoResults for raceResults.                            *)
(*  - One action is one event handler together with the re-render and the  *)
(*    effects React runs for it (socket effect, text-reset effect, mount   *)
(*    and unmount of TypingInterface).                                     *)
(***************************************************************************)
EXTENDS Integers, Sequences, FiniteSets, TLC

\* ------------------------------------------------------------------ bounds

\* Date.now() ranges over 1..MaxClock.
MaxClock == 2

\* The count of raceFinished messages of one race saturates here, and a
\* participant of the session sends at most this many.
MaxFinishEmits == 2

\* Participants of the session.
NumParticipants == 2

\* ------------------------------------------------------------- value sets

NULL == -1

NoError == "null"

\* raceResults is << >> for null, or << data >>
NoResults == << >>

Truthy(x) == x /= NULL /\ x /= 0

Num(x) == [t |-> "number", v |-> x]

NaN == [t |-> "NaN", v |-> 0]

Undefined == [t |-> "undefined", v |-> 0]

\* Race passages the coordinator may send; '' is the value raceText starts with.
Texts == { <<"a">>, <<"a", "b">> }

\* Keys of a keyboard event: printable characters (e.key of length 1),
\* Backspace, and a special key (e.key longer than one character).
Printable == {"a", "b"}

Keys == Printable \cup {"Backspace", "Shift"}

\* Contents of the username input field.
Usernames == { <<>>, <<" ">>, <<"a">>, <<" ", "a">>, <<"b", " ">> }

UserIds == {"u1", "u2"}

\* Rosters a lobbyState event may carry.
FreshUser(id, p) == [id |-> id, progress |-> p, finished |-> FALSE, rank |-> NULL]

Rosters ==
    { <<>> }
    \cup { <<FreshUser("u1", p)>> : p \in {0, 50} }
    \cup { <<FreshUser("u1", 0), FreshUser("u2", 0)>> }

Statuses == {"waiting", "countdown", "racing", "finished"}

Countdowns == {0, 3}

\* progress values of an opponentProgress event, ranks of a finish event
ProgressValues == {0, 50, 100}

Ranks == {1, 2}

\* startTime values of a raceStart event (0 is a number that is falsy)
StartTimes == {0, 1, 2}

Messages == {"", "server message"}

Reasons == {"io server disconnect", "transport close"}

\* ---------------------------------------------------------- pure helpers

Max(a, b) == IF a >= b THEN a ELSE b

Min(a, b) == IF a <= b THEN a ELSE b

\* Math.round(n / d) for n >= 0, d > 0: halves round up.
Round(n, d) == (2 * n + d) \div (2 * d)

\* Math.max(a, b) and Math.min(a, b) on JavaScript values: NaN if an argument
\* is NaN or converts to NaN (undefined does).
MathMax(a, b) ==
    IF a.t /= "number" \/ b.t /= "number" THEN NaN ELSE Num(Max(a.v, b.v))

MathMin(a, b) ==
    IF a.t /= "number" \/ b.t /= "number" THEN NaN ELSE Num(Min(a.v, b.v))

RECURSIVE TrimStart(_)
TrimStart(s) == IF s /= <<>> /\ Head(s) = " " THEN TrimStart(Tail(s)) ELSE s

RECURSIVE TrimEnd(_)
TrimEnd(s) ==
    IF s /= <<>> /\ s[Len(s)] = " " THEN TrimEnd(SubSeq(s, 1, Len(s) - 1)) ELSE s

\* String.prototype.trim
Trim(s) == TrimEnd(TrimStart(s))

\* typed.trim().split(/\s+/).length: the number of maximal runs of non-space
\* characters of the trimmed string, and 1 for the empty string.
RECURSIVE Runs(_, _)
Runs(s, inWord) ==
    IF s = <<>> THEN 0
    ELSE IF Head(s) = " " THEN Runs(Tail(s), FALSE)
    ELSE (IF inWord THEN 0 ELSE 1) + Runs(Tail(s), TRUE)

SplitLength(s) == IF Trim(s) = <<>> THEN 1 ELSE Runs(Trim(s), FALSE)

\* ------------------------------------------------------------------ state

VARIABLES
    appState,          \* App: "home", "typing", "results" or "multiplayer"
    testText,          \* App: the passage of the solo test
    results,           \* App: the stats of the completed solo test, or none (null)
    socket,            \* MultiplayerRace: the socket state; NULL or 1 (the newest socket)
    sockStatus,        \* connection state of the newest socket
    olderOpen,         \* sockets created by earlier runs of the effect that are still open
    lobbyState,        \* [users, countdown, status]
    raceText,
    raceStartTime,
    raceResults,
    username,
    isConnected,
    isReconnecting,
    connectionError,
    myRank,
    hasJoined,
    currentStandings,
    wasInLobby,
    typedText,         \* TypingInterface
    currentIndex,
    startTime,
    now,               \* Date.now()
    emitted,           \* messages the last handler emitted, in order
    lastEvent,         \* the handler that ran last
    finishEmits,       \* raceFinished messages emitted since the last raceStart
    lastProgressSent,  \* progress of the last progressUpdate of this race, or NULL
    timedOut,          \* raceTimeout was received since the last raceStart
    joinedName,        \* username of the last joinLobby sent by the Join action
    startReceived,     \* startTime of the last raceStart event of this race, or NULL
    coordinator,       \* the session's coordinator: participants, nextRank, accepted
    inbox,             \* raceFinished messages in flight to the coordinator, by sender
    outbox,            \* per participant, the events in flight to its client, in order
    views,             \* per participant, what its client has recorded: myRank, lobbyState
    sends              \* per participant, the raceFinished messages its client has sent

appVars == <<appState, testText, results>>

sockVars == <<socket, sockStatus, olderOpen>>

raceVars == <<lobbyState, raceText, raceStartTime, raceResults, myRank, currentStandings>>

joinVars == <<username, hasJoined, wasInLobby>>

connVars == <<isConnected, isReconnecting, connectionError>>

typingVars == <<typedText, currentIndex, startTime>>

ghostVars == <<finishEmits, lastProgressSent, timedOut, joinedName, startReceived>>

sessVars == <<coordinator, inbox, outbox, views, sends>>

clientVars == <<appVars, sockVars, raceVars, joinVars, connVars, typingVars, now, emitted,
                lastEvent, ghostVars>>

vars == <<clientVars, sessVars>>

InitialLobby == [users |-> <<>>, countdown |-> 0, status |-> "waiting"]

\* ------------------------------------------------------- TypingInterface

\* renderRaceTrack is shown when raceResults is null and status is racing; it
\* renders TypingInterface when raceText is non-empty.
TypingShown(res, lobby, passage) ==
    res = NoResults /\ lobby.status = "racing" /\ passage /= <<>>

TypingMounted == appState = "multiplayer" /\ TypingShown(raceResults, lobbyState, raceText)

\* IsActive without the connection test
IsActive_IgnoresConnection == ~Truthy(myRank)

\* IsActive without the test of the rank
IsActive_IgnoresRank == isConnected

\* isActive={!myRank && isConnected}
IsActive == ~Truthy(myRank) /\ isConnected

\* The text prop of the rendered TypingInterface: testText on the typing
\* screen of App, raceText in MultiplayerRace.
text == IF appState = "typing" THEN testText ELSE raceText

CorrectChars(typed, passage) ==
    Cardinality({ idx \in 1 .. Len(typed) :
                    idx <= Len(passage) /\ typed[idx] = passage[idx] })

\* calculateStats with accuracy 0 when nothing has been typed
calculateStats_EmptyIsZero(typed, currentIdx, start) ==
    LET elapsedMs == now - start
        wordsTyped == SplitLength(typed)
        correctChars == CorrectChars(typed, text)
        totalChars == Len(typed)
    IN  [ wpm |-> Num(IF elapsedMs > 0 THEN Round(wordsTyped * 60000, elapsedMs) ELSE 0),
          accuracy |-> Num(IF totalChars > 0 THEN Round(correctChars * 100, totalChars)
                                             ELSE 0),
          timeTakenMs |-> elapsedMs,
          correctChars |-> correctChars,
          incorrectChars |-> totalChars - correctChars,
          totalChars |-> totalChars ]

calculateStats(typed, currentIdx, start) ==
    LET elapsedMs == now - start
        wordsTyped == SplitLength(typed)
        correctChars == CorrectChars(typed, text)
        totalChars == Len(typed)
    IN  [ wpm |-> Num(IF elapsedMs > 0 THEN Round(wordsTyped * 60000, elapsedMs) ELSE 0),
          accuracy |-> Num(IF totalChars > 0 THEN Round(correctChars * 100, totalChars)
                                             ELSE 100),
          timeTakenMs |-> elapsedMs,
          correctChars |-> correctChars,
          incorrectChars |-> totalChars - correctChars,
          totalChars |-> totalChars ]

\* (currentIndex / text.length) * 100
ProgressOf(idx, passage) == (idx * 100) \div Len(passage)

\* The timer starts on the first key of any kind; the handler goes on with
\* the startTime of the render it was created in.
StartedTime == IF Truthy(startTime) THEN startTime ELSE now

\* handleKeyPress for an active interface: the new typing state and the stats
\* passed to onComplete (none, or one).
handleKeyPress(key) ==
    LET same == [typedText |-> typedText, currentIndex |-> currentIndex,
                 startTime |-> StartedTime, complete |-> <<>>]
    IN  IF key = "Backspace" THEN
            IF currentIndex > 0
            THEN [same EXCEPT !.typedText = SubSeq(typedText, 1, Len(typedText) - 1),
                              !.currentIndex = currentIndex - 1]
            ELSE same
        ELSE IF key \notin Printable THEN same
        ELSE IF currentIndex >= Len(text) THEN
            IF Truthy(startTime)
            THEN [same EXCEPT !.complete =
                     <<calculateStats(typedText, currentIndex, startTime)>>]
            ELSE same
        ELSE LET newTypedText == Append(typedText, key)
                 newIndex == currentIndex + 1
             IN  [same EXCEPT
                    !.typedText = newTypedText,
                    !.currentIndex = newIndex,
                    !.complete =
                        IF newIndex >= Len(text) /\ Truthy(startTime)
                        THEN <<calculateStats(newTypedText, newIndex, startTime)>>
                        ELSE <<>>]

\* ------------------------------------------------------- MultiplayerRace

Mounted == appState = "multiplayer"

\* Math.max(0, Math.min(100, progress))
validatedProgress(progress) == MathMax(Num(0), MathMin(Num(100), progress))

\* handleProgressUpdate without the test of isConnected
handleProgressUpdate_NoConnectionTest(progress) ==
    IF Truthy(socket) /\ lobbyState.status = "racing"
    THEN << [type |-> "progressUpdate", progress |-> validatedProgress(progress)] >>
    ELSE << >>

\* handleProgressUpdate: the messages it emits.
handleProgressUpdate(progress) ==
    IF Truthy(socket) /\ lobbyState.status = "racing" /\ isConnected
    THEN << [type |-> "progressUpdate", progress |-> validatedProgress(progress)] >>
    ELSE << >>

TypeOf(x) == IF x.t = "undefined" THEN "undefined" ELSE "number"

IsNaN(x) == x.t /= "number"

\* The validation without its isNaN tests
InvalidStats_TypeOnly(stats) ==
    TypeOf(stats.wpm) /= "number" \/ TypeOf(stats.accuracy) /= "number"

\* typeof stats.wpm !== 'number' || typeof stats.accuracy !== 'number' ||
\* isNaN(stats.wpm) || isNaN(stats.accuracy)
InvalidStats(stats) ==
    \/ TypeOf(stats.wpm) /= "number"
    \/ TypeOf(stats.accuracy) /= "number"
    \/ IsNaN(stats.wpm)
    \/ IsNaN(stats.accuracy)

\* The elapsed time taken from the typing stats (measured from the first key)
RaceTimeTaken_FromFirstKey(stats) == stats.timeTakenMs

\* (Date.now() - raceStartTime) / 1000, in milliseconds
RaceTimeTaken(stats) == now - raceStartTime

\* handleRaceComplete: the messages it emits and the error message it leaves.
handleRaceComplete(stats) ==
    IF Truthy(socket) /\ Truthy(raceStartTime) /\ isConnected
    THEN IF InvalidStats(stats)
         THEN [emit |-> << >>,
               error |-> "Invalid race completion data. Please try again."]
         ELSE [emit |-> << [type |-> "raceFinished",
                            finalWPM |-> MathMax(Num(0), stats.wpm),
                            finalAccuracy |->
                                MathMax(Num(0), MathMin(Num(100), stats.accuracy)),
                            timeTakenMs |-> Max(0, RaceTimeTaken(stats))] >>,
               error |-> connectionError]
    ELSE [emit |-> << >>, error |-> connectionError]

\* wasInLobby && username.trim() && hasJoined
ShouldRejoin == wasInLobby /\ Trim(username) /= << >> /\ hasJoined

\* The rejoin with the username as typed, not trimmed
RejoinMessages_Untrimmed ==
    IF ShouldRejoin
    THEN << [type |-> "joinLobby", username |-> username, reconnect |-> TRUE] >>
    ELSE << >>

\* The connect handler's emits.
RejoinMessages ==
    IF ShouldRejoin
    THEN << [type |-> "joinLobby", username |-> Trim(username), reconnect |-> TRUE] >>
    ELSE << >>

\* socket && username.trim() && isConnected
CanJoin == Truthy(socket) /\ Trim(username) /= << >> /\ isConnected

\* The join with the username as typed, not trimmed
JoinMessage_Untrimmed == [type |-> "joinLobby", username |-> username, reconnect |-> FALSE]

JoinMessage == [type |-> "joinLobby", username |-> Trim(username), reconnect |-> FALSE]

\* setLobbyState updaters of the opponentProgress and opponentFinished handlers
opponentProgress(prev, data) ==
    [prev EXCEPT !.users =
        [i \in DOMAIN prev.users |->
            IF prev.users[i].id = data.userId
            THEN [prev.users[i] EXCEPT !.progress = data.progress]
            ELSE prev.users[i]]]

\* The updater without its test of the user id
opponentFinished_EveryUser(prev, data) ==
    [prev EXCEPT !.users =
        [i \in DOMAIN prev.users |->
            [prev.users[i] EXCEPT !.finished = TRUE, !.rank = data.rank]]]

opponentFinished(prev, data) ==
    [prev EXCEPT !.users =
        [i \in DOMAIN prev.users |->
            IF prev.users[i].id = data.userId
            THEN [prev.users[i] EXCEPT !.finished = TRUE, !.rank = data.rank]
            ELSE prev.users[i]]]

\* lobbyState.users.sort((a, b) => (b.progress || 0) - (a.progress || 0)) in
\* renderRaceTrack: the array held in the state is sorted in place, by
\* progress, largest first; members of equal progress keep their order.
RECURSIVE InsertUser(_, _)
InsertUser(sorted, u) ==
    IF sorted = << >> THEN << u >>
    ELSE IF sorted[Len(sorted)].progress >= u.progress THEN Append(sorted, u)
    ELSE Append(InsertUser(SubSeq(sorted, 1, Len(sorted) - 1), u), sorted[Len(sorted)])

RECURSIVE SortUsers(_)
SortUsers(users) ==
    IF users = << >> THEN << >>
    ELSE InsertUser(SortUsers(SubSeq(users, 1, Len(users) - 1)), users[Len(users)])

\* The lobby state after the render that follows a handler: renderRaceTrack
\* runs when there are no results and the status is racing.
Rendered(res, lobby) ==
    IF res = NoResults /\ lobby.status = "racing"
    THEN [lobby EXCEPT !.users = SortUsers(@)]
    ELSE lobby

\* The error message of the raceTimeout handler.
TimeoutError(data) ==
    IF data.unfinishedUsers /= << >>
    THEN IF data.message = "" THEN ". Some players did not finish: u1"
         ELSE "server message. Some players did not finish: u1"
    ELSE IF data.message /= "" THEN data.message ELSE "Race time limit reached."

\* error.message || default
ErrorText(message, default) == IF message /= "" THEN message ELSE default

\* --------------------------------------------------- rendering and effects

TypingReset == typedText' = << >> /\ currentIndex' = 0 /\ startTime' = NULL

\* After a handler of MultiplayerRace: TypingInterface keeps its state while
\* it stays mounted with the same text; it starts afresh when it is mounted
\* or when its text changes, and it has no state while it is not rendered.
TypingKept ==
    /\ appState' = "multiplayer"
    /\ TypingShown(raceResults', lobbyState', raceText')
    /\ TypingMounted
    /\ raceText' = raceText

RenderTyping ==
    /\ IF TypingKept THEN UNCHANGED typingVars ELSE TypingReset
    /\ lastProgressSent' = (IF TypingKept THEN lastProgressSent ELSE NULL)

\* A cleanup that does not close the socket of its effect run
AfterCleanup_LeavesOpen(older) == IF older < 2 THEN older + 1 ELSE older

\* return () => { newSocket.close() }: the cleanup closes the socket its
\* effect run created, so the sockets left open are the older ones.
AfterCleanup(older) == older

\* The socket effect: when one of its dependencies has changed, the cleanup
\* closes the socket (a connected socket that is closed runs its disconnect
\* handler, with reason "io client disconnect") and a new socket is created.
\* conn and recon are the values the handler itself left.
SocketEffect(conn, recon) ==
    IF <<wasInLobby', username', hasJoined'>> /= <<wasInLobby, username, hasJoined>>
    THEN /\ sockStatus' = "connecting"
         /\ socket' = 1
         /\ olderOpen' = AfterCleanup(olderOpen)
         /\ isConnected' = (IF sockStatus = "connected" THEN FALSE ELSE conn)
         /\ isReconnecting' = (IF sockStatus = "connected" THEN TRUE ELSE recon)
    ELSE /\ UNCHANGED sockVars
         /\ isConnected' = conn
         /\ isReconnecting' = recon

\* The component's state when it is created, and while it does not exist.
Unmounted ==
    /\ socket' = NULL
    /\ sockStatus' = "none"
    /\ olderOpen' = AfterCleanup(olderOpen)
    /\ lobbyState' = InitialLobby
    /\ raceText' = << >>
    /\ raceStartTime' = NULL
    /\ raceResults' = NoResults
    /\ username' = << >>
    /\ isConnected' = FALSE
    /\ isReconnecting' = FALSE
    /\ connectionError' = NoError
    /\ myRank' = NULL
    /\ hasJoined' = FALSE
    /\ currentStandings' = << >>
    /\ wasInLobby' = FALSE
    /\ TypingReset
    /\ finishEmits' = 0
    /\ lastProgressSent' = NULL
    /\ timedOut' = FALSE
    /\ joinedName' = << >>
    /\ startReceived' = NULL

\* ---------------------------------------------------------------- session
\* The coordinator is not part of the client sources; it is modelled from the
\* specification (4.2 finish transition, 6 participantFinished): a completion
\* of a participant that has not finished is accepted once and gets the next
\* rank; the finisher is sent userFinished, and opponentFinished goes to all.
\* The clients record what they receive with the handlers of MultiplayerRace.

Participants == 1 .. NumParticipants

SessionRoster == [i \in 1 .. NumParticipants |-> FreshUser(i, 0)]

SessionInit ==
    /\ coordinator = [finished |-> [p \in Participants |-> FALSE],
                      rank |-> [p \in Participants |-> NULL],
                      nextRank |-> 1,
                      accepted |-> << >>]
    /\ inbox = [p \in Participants |-> 0]
    /\ outbox = [p \in Participants |-> << >>]
    /\ views = [p \in Participants |->
                   [myRank |-> NULL,
                    lobbyState |-> [users |-> SessionRoster, countdown |-> 0,
                                    status |-> "racing"]]]
    /\ sends = [p \in Participants |-> 0]

\* setMyRank(data.rank)
userFinished(data) == data.rank

\* A client completes the text while its interface is active (!myRank):
\* handleRaceComplete emits raceFinished.
ClientRaceFinished(p) ==
    /\ ~Truthy(views[p].myRank)
    /\ sends[p] < MaxFinishEmits
    /\ sends' = [sends EXCEPT ![p] = @ + 1]
    /\ inbox' = [inbox EXCEPT ![p] = @ + 1]
    /\ UNCHANGED <<coordinator, outbox, views, clientVars>>

\* The coordinator accepts the completion of a participant that has not finished.
CoordinatorAccept(p) ==
    /\ inbox[p] > 0
    /\ ~coordinator.finished[p]
    /\ LET r == coordinator.nextRank
       IN  /\ coordinator' = [coordinator EXCEPT !.finished[p] = TRUE,
                                                 !.rank[p] = r,
                                                 !.nextRank = r + 1,
                                                 !.accepted = Append(@, p)]
           /\ outbox' = [q \in Participants |->
                 (IF q = p
                  THEN Append(outbox[q], [type |-> "userFinished", userId |-> p, rank |-> r])
                  ELSE outbox[q])
                 \o << [type |-> "opponentFinished", userId |-> p, rank |-> r] >>]
    /\ inbox' = [inbox EXCEPT ![p] = @ - 1]
    /\ UNCHANGED <<views, sends, clientVars>>

\* A completion of a participant that has finished is a stale operation.
CoordinatorReject(p) ==
    /\ inbox[p] > 0
    /\ coordinator.finished[p]
    /\ inbox' = [inbox EXCEPT ![p] = @ - 1]
    /\ UNCHANGED <<coordinator, outbox, views, sends, clientVars>>

\* The client of p handles the next event sent to it.
ClientReceive(p) ==
    /\ outbox[p] /= << >>
    /\ LET m == Head(outbox[p])
       IN  views' = [views EXCEPT ![p] =
               IF m.type = "userFinished"
               THEN [@ EXCEPT !.myRank = userFinished(m)]
               ELSE [@ EXCEPT !.lobbyState = opponentFinished(@, m)]]
    /\ outbox' = [outbox EXCEPT ![p] = Tail(@)]
    /\ UNCHANGED <<coordinator, inbox, sends, clientVars>>

Init ==
    /\ appState = "home"
    /\ testText = << >>
    /\ results = NoResults
    /\ socket = NULL
    /\ sockStatus = "none"
    /\ olderOpen = 0
    /\ lobbyState = InitialLobby
    /\ raceText = << >>
    /\ raceStartTime = NULL
    /\ raceResults = NoResults
    /\ username = << >>
    /\ isConnected = FALSE
    /\ isReconnecting = FALSE
    /\ connectionError = NoError
    /\ myRank = NULL
    /\ hasJoined = FALSE
    /\ currentStandings = << >>
    /\ wasInLobby = FALSE
    /\ typedText = << >>
    /\ currentIndex = 0
    /\ startTime = NULL
    /\ now = 1
    /\ emitted = << >>
    /\ lastEvent = "init"
    /\ finishEmits = 0
    /\ lastProgressSent = NULL
    /\ timedOut = FALSE
    /\ joinedName = << >>
    /\ startReceived = NULL
    /\ SessionInit

\* ----------------------------------------------------------- App actions

\* App.handleJoinRace: MultiplayerRace is mounted and its socket effect runs.
HandleJoinRace ==
    /\ \/ appState = "home"
       \/ appState = "results" /\ results /= NoResults
    /\ appState' = "multiplayer"
    /\ UNCHANGED <<testText, results>>
    /\ socket' = 1
    /\ sockStatus' = "connecting"
    /\ UNCHANGED olderOpen
    /\ emitted' = << >>
    /\ lastEvent' = "handleJoinRace"
    /\ UNCHANGED sessVars
    /\ UNCHANGED <<raceVars, joinVars, connVars, typingVars, now, ghostVars>>

\* App.handleExitMultiplayer (Back to Home): the component is unmounted and
\* the effect's cleanup closes the socket.
Exit ==
    /\ Mounted
    /\ appState' = "home"
    /\ UNCHANGED <<testText, results>>
    /\ Unmounted
    /\ emitted' = << >>
    /\ lastEvent' = "exit"
    /\ UNCHANGED sessVars
    /\ UNCHANGED now

\* The passages of the solo test (scaled down to two characters each).
sampleTexts == { <<"a", "b">>, <<"b", "a">> }

\* What a handler of the solo screens leaves alone: MultiplayerRace does not
\* exist and nothing is sent.
SoloFrame ==
    /\ emitted' = << >>
    /\ UNCHANGED sessVars
    /\ UNCHANGED <<sockVars, raceVars, joinVars, connVars, now, ghostVars>>

\* App.startSoloTest: a passage is drawn and the typing screen is shown.
startSoloTest(randomText) ==
    /\ testText' = randomText
    /\ appState' = "typing"

\* handleTestComplete that does not store the stats
handleTestComplete_DropsStats(stats) ==
    /\ UNCHANGED results
    /\ appState' = "results"

\* App.handleTestComplete
handleTestComplete(stats) ==
    /\ results' = << stats >>
    /\ appState' = "results"

\* The Start Solo Test button of the home screen; TypingInterface is mounted.
StartSoloTest ==
    /\ appState = "home"
    /\ \E randomText \in sampleTexts : startSoloTest(randomText)
    /\ UNCHANGED results
    /\ TypingReset
    /\ lastEvent' = "startSoloTest"
    /\ SoloFrame

\* onKeyDown of TypingInterface on the typing screen (isActive is true); a
\* completion goes to handleTestComplete and the interface is unmounted.
TestKeyPress(key) ==
    /\ appState = "typing"
    /\ lastEvent' = "testKeyPress"
    /\ SoloFrame
    /\ LET r == handleKeyPress(key)
       IN  IF r.complete /= << >>
           THEN /\ handleTestComplete(r.complete[1])
                /\ UNCHANGED testText
                /\ TypingReset
           ELSE /\ typedText' = r.typedText
                /\ currentIndex' = r.currentIndex
                /\ startTime' = r.startTime
                /\ UNCHANGED appVars

\* The Back to Home button of the typing and of the results screen
BackToHome ==
    /\ appState \in {"typing", "results"}
    /\ appState' = "home"
    /\ UNCHANGED <<testText, results>>
    /\ TypingReset
    /\ lastEvent' = "backToHome"
    /\ SoloFrame

\* App.handleRestart (Try Again of ResultsScreen, rendered when results is set)
HandleRestart ==
    /\ appState = "results"
    /\ results /= NoResults
    /\ results' = NoResults
    /\ \E randomText \in sampleTexts : startSoloTest(randomText)
    /\ TypingReset
    /\ lastEvent' = "handleRestart"
    /\ SoloFrame

\* ------------------------------------------------------------ UI actions

LobbyShown == Mounted /\ raceResults = NoResults /\ lobbyState.status /= "racing"

RaceTrackShown == Mounted /\ raceResults = NoResults /\ lobbyState.status = "racing"

ResultsShown == Mounted /\ raceResults /= NoResults

JoinFormShown == LobbyShown /\ lobbyState.status = "waiting" /\ ~hasJoined

\* onChange of the username input
SetUsername(value) ==
    /\ JoinFormShown
    /\ value /= username
    /\ username' = value
    /\ UNCHANGED <<hasJoined, wasInLobby>>
    /\ SocketEffect(isConnected, isReconnecting)
    /\ UNCHANGED <<appVars, raceVars, connectionError, now>>
    /\ RenderTyping
    /\ emitted' = << >>
    /\ lastEvent' = "setUsername"
    /\ UNCHANGED sessVars
    /\ UNCHANGED <<finishEmits, timedOut, joinedName, startReceived>>

\* joinLobby (the Join Race button, or Enter in the input)
JoinLobby ==
    /\ JoinFormShown
    /\ IF CanJoin
       THEN /\ emitted' = << JoinMessage >>
            /\ hasJoined' = TRUE
            /\ wasInLobby' = TRUE
            /\ joinedName' = emitted'[1].username
       ELSE /\ emitted' = << >>
            /\ UNCHANGED <<hasJoined, wasInLobby, joinedName>>
    /\ UNCHANGED username
    /\ SocketEffect(isConnected, isReconnecting)
    /\ UNCHANGED <<appVars, raceVars, connectionError, now>>
    /\ RenderTyping
    /\ lastEvent' = "joinLobby"
    /\ UNCHANGED sessVars
    /\ UNCHANGED <<finishEmits, timedOut, startReceived>>

\* leaveLobby (Leave Race), which ends with onExit()
LeaveLobby ==
    /\ \/ RaceTrackShown
       \/ LobbyShown /\ hasJoined /\ lobbyState.status /= "finished"
    /\ emitted' = (IF Truthy(socket) THEN << [type |-> "leaveLobby"] >> ELSE << >>)
    /\ appState' = "home"
    /\ UNCHANGED <<testText, results>>
    /\ Unmounted
    /\ lastEvent' = "leaveLobby"
    /\ UNCHANGED sessVars
    /\ UNCHANGED now

\* The Race Again button of the results view
RaceAgain ==
    /\ ResultsShown
    /\ raceResults' = NoResults
    /\ raceText' = << >>
    /\ raceStartTime' = NULL
    /\ myRank' = NULL
    /\ hasJoined' = FALSE
    /\ currentStandings' = << >>
    /\ lobbyState' = InitialLobby
    /\ UNCHANGED <<username, wasInLobby>>
    /\ SocketEffect(isConnected, isReconnecting)
    /\ UNCHANGED <<appVars, connectionError, now>>
    /\ RenderTyping
    /\ emitted' = << >>
    /\ lastEvent' = "raceAgain"
    /\ UNCHANGED sessVars
    /\ finishEmits' = 0
    /\ timedOut' = FALSE
    /\ joinedName' = << >>
    /\ startReceived' = NULL

\* KeyPress without the test of isActive
KeyPress_NoActiveGuard(key) ==
    /\ TypingMounted
    /\ lastEvent' = "keyPress"
    /\ UNCHANGED sessVars
    /\ UNCHANGED <<appVars, sockVars, raceVars, joinVars, isConnected, isReconnecting,
                   now, timedOut, joinedName, lastProgressSent, startReceived>>
    /\ LET r == handleKeyPress(key)
           c == IF r.complete /= << >>
                THEN handleRaceComplete(r.complete[1])
                ELSE [emit |-> << >>, error |-> connectionError]
       IN  /\ typedText' = r.typedText
           /\ currentIndex' = r.currentIndex
           /\ startTime' = r.startTime
           /\ emitted' = c.emit
           /\ connectionError' = c.error
           /\ finishEmits' = Min(finishEmits + Len(c.emit), MaxFinishEmits)

\* onKeyDown of the hidden input of TypingInterface
KeyPress(key) ==
    /\ TypingMounted
    /\ lastEvent' = "keyPress"
    /\ UNCHANGED sessVars
    /\ UNCHANGED <<appVars, sockVars, raceVars, joinVars, isConnected, isReconnecting,
                   now, timedOut, joinedName, lastProgressSent, startReceived>>
    /\ IF ~IsActive
       THEN /\ emitted' = << >>
            /\ UNCHANGED <<typingVars, connectionError, finishEmits>>
       ELSE LET r == handleKeyPress(key)
                c == IF r.complete /= << >>
                     THEN handleRaceComplete(r.complete[1])
                     ELSE [emit |-> << >>, error |-> connectionError]
            IN  /\ typedText' = r.typedText
                /\ currentIndex' = r.currentIndex
                /\ startTime' = r.startTime
                /\ emitted' = c.emit
                /\ connectionError' = c.error
                /\ finishEmits' = Min(finishEmits + Len(c.emit), MaxFinishEmits)

\* The 100 ms interval of TypingInterface (set while startTime && isActive)
ProgressInterval ==
    /\ TypingMounted
    /\ Truthy(startTime)
    /\ IsActive
    /\ emitted' = handleProgressUpdate(Num(ProgressOf(currentIndex, raceText)))
    /\ lastProgressSent' =
           (IF emitted' /= << >> THEN emitted'[1].progress.v ELSE lastProgressSent)
    /\ lastEvent' = "progressInterval"
    /\ UNCHANGED sessVars
    /\ UNCHANGED <<appVars, sockVars, raceVars, joinVars, connVars, typingVars, now,
                   finishEmits, timedOut, joinedName, startReceived>>

\* Date.now() advances.
Tick ==
    /\ now < MaxClock
    /\ now' = now + 1
    /\ emitted' = << >>
    /\ lastEvent' = "tick"
    /\ UNCHANGED sessVars
    /\ UNCHANGED <<appVars, sockVars, raceVars, joinVars, connVars, typingVars, ghostVars>>

\* ------------------------------------------------- socket lifecycle events

\* An event of the socket reaches the handlers of the mounted component.
Connecting == Mounted /\ sockStatus \in {"connecting", "reconnecting"}

Connected == Mounted /\ sockStatus = "connected"

\* newSocket.on('connect')
ConnectEvent ==
    /\ Connecting
    /\ sockStatus' = "connected"
    /\ isConnected' = TRUE
    /\ isReconnecting' = FALSE
    /\ connectionError' = NoError
    /\ emitted' = RejoinMessages
    /\ lastEvent' = "connect"
    /\ UNCHANGED sessVars
    /\ UNCHANGED <<appVars, socket, olderOpen, raceVars, joinVars, typingVars, now, ghostVars>>

\* A disconnect handler that reports every disconnect as an error
DisconnectEvent_AlwaysError(reason) ==
    /\ Connected
    /\ sockStatus' =
           (IF reason = "io server disconnect" THEN "disconnected" ELSE "reconnecting")
    /\ isConnected' = FALSE
    /\ connectionError' = "Disconnected from server. Please refresh the page."
    /\ UNCHANGED isReconnecting
    /\ emitted' = << >>
    /\ lastEvent' = "disconnect"
    /\ UNCHANGED sessVars
    /\ UNCHANGED <<appVars, socket, olderOpen, raceVars, joinVars, typingVars, now, ghostVars>>

\* newSocket.on('disconnect'); after a disconnect by the server the socket
\* does not reconnect by itself.
DisconnectEvent(reason) ==
    /\ Connected
    /\ sockStatus' =
           (IF reason = "io server disconnect" THEN "disconnected" ELSE "reconnecting")
    /\ isConnected' = FALSE
    /\ IF reason = "io server disconnect"
       THEN /\ connectionError' = "Disconnected from server. Please refresh the page."
            /\ UNCHANGED isReconnecting
       ELSE /\ isReconnecting' = TRUE
            /\ UNCHANGED connectionError
    /\ emitted' = << >>
    /\ lastEvent' = "disconnect"
    /\ UNCHANGED sessVars
    /\ UNCHANGED <<appVars, socket, olderOpen, raceVars, joinVars, typingVars, now, ghostVars>>

\* newSocket.on('reconnect_attempt')
ReconnectAttemptEvent ==
    /\ Mounted /\ sockStatus = "reconnecting"
    /\ isReconnecting' = TRUE
    /\ connectionError' = NoError
    /\ emitted' = << >>
    /\ lastEvent' = "reconnect_attempt"
    /\ UNCHANGED sessVars
    /\ UNCHANGED <<appVars, sockVars, raceVars, joinVars, isConnected, typingVars, now,
                   ghostVars>>

\* newSocket.on('reconnect'): the transport is open again; connect follows.
ReconnectEvent ==
    /\ Mounted /\ sockStatus = "reconnecting"
    /\ isReconnecting' = FALSE
    /\ isConnected' = TRUE
    /\ connectionError' = NoError
    /\ emitted' = << >>
    /\ lastEvent' = "reconnect"
    /\ UNCHANGED sessVars
    /\ UNCHANGED <<appVars, sockVars, raceVars, joinVars, typingVars, now, ghostVars>>

\* newSocket.on('reconnect_error')
ReconnectErrorEvent ==
    /\ Mounted /\ sockStatus = "reconnecting"
    /\ isReconnecting' = TRUE
    /\ connectionError' = "Connection lost. Attempting to reconnect..."
    /\ emitted' = << >>
    /\ lastEvent' = "reconnect_error"
    /\ UNCHANGED sessVars
    /\ UNCHANGED <<appVars, sockVars, raceVars, joinVars, isConnected, typingVars, now,
                   ghostVars>>

\* newSocket.on('connect_error')
ConnectErrorEvent ==
    /\ Connecting
    /\ connectionError' = "Unable to connect to server. Please check your connection."
    /\ isConnected' = FALSE
    /\ emitted' = << >>
    /\ lastEvent' = "connect_error"
    /\ UNCHANGED sessVars
    /\ UNCHANGED <<appVars, sockVars, raceVars, joinVars, isReconnecting, typingVars, now,
                   ghostVars>>

\* ------------------------------------------------- coordinator events

\* newSocket.on('lobbyState')
LobbyStateEvent(data) ==
    /\ Connected
    /\ lobbyState' = Rendered(raceResults, data)
    /\ UNCHANGED <<raceText, raceStartTime, raceResults, myRank, currentStandings>>
    /\ UNCHANGED <<appVars, sockVars, joinVars, connVars, now>>
    /\ RenderTyping
    /\ emitted' = << >>
    /\ lastEvent' = "lobbyState"
    /\ UNCHANGED sessVars
    /\ UNCHANGED <<finishEmits, timedOut, joinedName, startReceived>>

\* newSocket.on('raceStart')
RaceStartEvent(data) ==
    /\ Connected
    /\ raceText' = data.raceText
    /\ raceStartTime' = data.startTime
    /\ lobbyState' = Rendered(raceResults, [lobbyState EXCEPT !.status = "racing"])
    /\ UNCHANGED <<raceResults, myRank, currentStandings>>
    /\ UNCHANGED <<appVars, sockVars, joinVars, connVars, now>>
    /\ IF TypingKept THEN UNCHANGED typingVars ELSE TypingReset
    /\ lastProgressSent' = NULL
    /\ finishEmits' = 0
    /\ timedOut' = FALSE
    /\ startReceived' = data.startTime
    /\ emitted' = << >>
    /\ lastEvent' = "raceStart"
    /\ UNCHANGED sessVars
    /\ UNCHANGED joinedName

\* newSocket.on('opponentProgress')
OpponentProgressEvent(data) ==
    /\ Connected
    /\ lobbyState' = Rendered(raceResults, opponentProgress(lobbyState, data))
    /\ UNCHANGED <<raceText, raceStartTime, raceResults, myRank, currentStandings>>
    /\ UNCHANGED <<appVars, sockVars, joinVars, connVars, now>>
    /\ RenderTyping
    /\ emitted' = << >>
    /\ lastEvent' = "opponentProgress"
    /\ UNCHANGED sessVars
    /\ UNCHANGED <<finishEmits, timedOut, joinedName, startReceived>>

\* newSocket.on('userFinished')
UserFinishedEvent(data) ==
    /\ Connected
    /\ myRank' = userFinished(data)
    /\ currentStandings' = data.currentStandings
    /\ UNCHANGED <<lobbyState, raceText, raceStartTime, raceResults>>
    /\ UNCHANGED <<appVars, sockVars, joinVars, connVars, now>>
    /\ RenderTyping
    /\ emitted' = << >>
    /\ lastEvent' = "userFinished"
    /\ UNCHANGED sessVars
    /\ UNCHANGED <<finishEmits, timedOut, joinedName, startReceived>>

\* newSocket.on('opponentFinished')
OpponentFinishedEvent(data) ==
    /\ Connected
    /\ lobbyState' = Rendered(raceResults, opponentFinished(lobbyState, data))
    /\ UNCHANGED <<raceText, raceStartTime, raceResults, myRank, currentStandings>>
    /\ UNCHANGED <<appVars, sockVars, joinVars, connVars, now>>
    /\ RenderTyping
    /\ emitted' = << >>
    /\ lastEvent' = "opponentFinished"
    /\ UNCHANGED sessVars
    /\ UNCHANGED <<finishEmits, timedOut, joinedName, startReceived>>

\* A handler of raceResults that also clears the race text
RaceResultsEvent_ClearsText(data) ==
    /\ Connected
    /\ raceResults' = << data >>
    /\ lobbyState' = [lobbyState EXCEPT !.status = "finished"]
    /\ raceText' = << >>
    /\ UNCHANGED <<raceStartTime, myRank, currentStandings>>
    /\ UNCHANGED <<appVars, sockVars, joinVars, connVars, now>>
    /\ RenderTyping
    /\ emitted' = << >>
    /\ lastEvent' = "raceResults"
    /\ UNCHANGED sessVars
    /\ UNCHANGED <<finishEmits, timedOut, joinedName, startReceived>>

\* newSocket.on('raceResults')
RaceResultsEvent(data) ==
    /\ Connected
    /\ raceResults' = << data >>
    /\ lobbyState' = [lobbyState EXCEPT !.status = "finished"]
    /\ UNCHANGED <<raceText, raceStartTime, myRank, currentStandings>>
    /\ UNCHANGED <<appVars, sockVars, joinVars, connVars, now>>
    /\ RenderTyping
    /\ emitted' = << >>
    /\ lastEvent' = "raceResults"
    /\ UNCHANGED sessVars
    /\ UNCHANGED <<finishEmits, timedOut, joinedName, startReceived>>

\* A handler of raceError that ends the race
RaceErrorEvent_Aborts(error) ==
    /\ Connected
    /\ connectionError' = ErrorText(error.message, "An error occurred during the race.")
    /\ lobbyState' = [lobbyState EXCEPT !.status = "finished"]
    /\ UNCHANGED <<raceText, raceStartTime, raceResults, myRank, currentStandings>>
    /\ UNCHANGED <<appVars, sockVars, joinVars, isConnected, isReconnecting, now>>
    /\ RenderTyping
    /\ emitted' = << >>
    /\ lastEvent' = "raceError"
    /\ UNCHANGED sessVars
    /\ UNCHANGED <<finishEmits, timedOut, joinedName, startReceived>>

\* newSocket.on('raceError')
RaceErrorEvent(error) ==
    /\ Connected
    /\ connectionError' = ErrorText(error.message, "An error occurred during the race.")
    /\ emitted' = << >>
    /\ lastEvent' = "raceError"
    /\ UNCHANGED sessVars
    /\ UNCHANGED <<appVars, sockVars, raceVars, joinVars, isConnected, isReconnecting,
                   typingVars, now, ghostVars>>

\* newSocket.on('lobbyError')
LobbyErrorEvent(error) ==
    /\ Connected
    /\ connectionError' = ErrorText(error.message, "An error occurred in the lobby.")
    /\ emitted' = << >>
    /\ lastEvent' = "lobbyError"
    /\ UNCHANGED sessVars
    /\ UNCHANGED <<appVars, sockVars, raceVars, joinVars, isConnected, isReconnecting,
                   typingVars, now, ghostVars>>

\* newSocket.on('raceTimeout')
RaceTimeoutEvent(data) ==
    /\ Connected
    /\ connectionError' = TimeoutError(data)
    /\ timedOut' = TRUE
    /\ emitted' = << >>
    /\ lastEvent' = "raceTimeout"
    /\ UNCHANGED sessVars
    /\ UNCHANGED <<appVars, sockVars, raceVars, joinVars, isConnected, isReconnecting,
                   typingVars, now, finishEmits, lastProgressSent, joinedName,
                   startReceived>>

\* --------------------------------------------------------- event payloads

\* The countdown is 3 in status countdown and 0 otherwise.
LobbyStates ==
    { d \in [users : Rosters, countdown : Countdowns, status : Statuses] :
        (d.countdown = 3) <=> (d.status = "countdown") }

RaceStarts == [raceText : Texts, startTime : StartTimes]

ProgressEvents == [userId : UserIds, progress : ProgressValues]

Standings == { << >>, << 1 >> }

UserFinishes == [rank : Ranks, currentStandings : Standings]

OpponentFinishes == [userId : UserIds, rank : Ranks]

ResultSets == { [results |-> << 1 >>, finished |-> TRUE] }

Errors == [message : Messages]

Timeouts == [message : Messages, unfinishedUsers : { << >>, << "u1" >> }]

\* ------------------------------------------ the callbacks, called directly

JSValues == { Num(0 - 5), Num(50), Num(150), NaN, Undefined }

StatsInputs == [wpm : JSValues \ {Num(150)}, accuracy : JSValues, timeTakenMs : {0}]

\* not a number, or NaN
Malformed(x) == x.t /= "number"

\* handleRaceComplete called with any stats
RaceCompleteCall(stats) ==
    /\ Mounted
    /\ LET c == handleRaceComplete(stats)
       IN  /\ emitted' = c.emit
           /\ connectionError' = c.error
           /\ finishEmits' = Min(finishEmits + Len(c.emit), MaxFinishEmits)
    /\ lastEvent' = (IF Malformed(stats.wpm) \/ Malformed(stats.accuracy)
                     THEN "handleRaceComplete(malformed)"
                     ELSE "handleRaceComplete")
    /\ UNCHANGED sessVars
    /\ UNCHANGED <<appVars, sockVars, raceVars, joinVars, isConnected, isReconnecting,
                   typingVars, now, lastProgressSent, timedOut, joinedName, startReceived>>

\* handleProgressUpdate called with any progress
ProgressUpdateCall(progress) ==
    /\ Mounted
    /\ emitted' = handleProgressUpdate(progress)
    /\ lastEvent' = "handleProgressUpdate"
    /\ UNCHANGED sessVars
    /\ UNCHANGED <<appVars, sockVars, raceVars, joinVars, connVars, typingVars, now,
                   ghostVars>>

\* ------------------------------------------------------------------ specs

\* Every handler with every payload.
Next ==
    \/ HandleJoinRace
    \/ Exit
    \/ StartSoloTest
    \/ \E key \in Keys : TestKeyPress(key)
    \/ BackToHome
    \/ HandleRestart
    \/ \E value \in Usernames : SetUsername(value)
    \/ JoinLobby
    \/ LeaveLobby
    \/ RaceAgain
    \/ \E key \in Keys : KeyPress(key)
    \/ ProgressInterval
    \/ Tick
    \/ ConnectEvent
    \/ \E reason \in Reasons : DisconnectEvent(reason)
    \/ ReconnectAttemptEvent
    \/ ReconnectEvent
    \/ ReconnectErrorEvent
    \/ ConnectErrorEvent
    \/ \E data \in LobbyStates : LobbyStateEvent(data)
    \/ \E data \in RaceStarts : RaceStartEvent(data)
    \/ \E data \in ProgressEvents : OpponentProgressEvent(data)
    \/ \E data \in UserFinishes : UserFinishedEvent(data)
    \/ \E data \in OpponentFinishes : OpponentFinishedEvent(data)
    \/ \E data \in ResultSets : RaceResultsEvent(data)
    \/ \E error \in Errors : RaceErrorEvent(error)
    \/ \E error \in Errors : LobbyErrorEvent(error)
    \/ \E data \in Timeouts : RaceTimeoutEvent(data)

Spec == Init /\ [][Next]_vars

\* The state space of Spec is the product of the lobby, the connection and
\* the typing state.  The claims are checked under the restrictions of Next
\* below: each keeps the handlers a group of claims is about and fewer
\* payloads of the others.

\* A participant in a race: joining, the race's events, typing, the clock,
\* disconnects.  No roster events, no error events but raceTimeout.
NextRace ==
    \/ HandleJoinRace
    \/ Exit
    \/ \E value \in { <<"a">> } : SetUsername(value)
    \/ JoinLobby
    \/ LeaveLobby
    \/ RaceAgain
    \/ \E key \in Keys : KeyPress(key)
    \/ ProgressInterval
    \/ Tick
    \/ ConnectEvent
    \/ \E reason \in Reasons : DisconnectEvent(reason)
    \/ \E data \in RaceStarts : RaceStartEvent(data)
    \/ \E data \in { [rank |-> 1, currentStandings |-> << 1 >>] } : UserFinishedEvent(data)
    \/ \E data \in ResultSets : RaceResultsEvent(data)
    \/ \E data \in { [message |-> "", unfinishedUsers |-> << >>] } : RaceTimeoutEvent(data)

SpecRace == Init /\ [][NextRace]_vars

\* The roster: lobbyState, opponentProgress and opponentFinished events in
\* any order with raceStart, and the sender's side of progress (typing, the
\* progress interval).
NextRoster ==
    \/ HandleJoinRace
    \/ Exit
    \/ ConnectEvent
    \/ \E key \in Keys : KeyPress(key)
    \/ ProgressInterval
    \/ \E data \in LobbyStates : LobbyStateEvent(data)
    \/ \E data \in { [raceText |-> <<"a", "b">>, startTime |-> 1] } : RaceStartEvent(data)
    \/ \E data \in ProgressEvents : OpponentProgressEvent(data)
    \/ \E data \in OpponentFinishes : OpponentFinishedEvent(data)

SpecRoster == Init /\ [][NextRoster]_vars

\* Joining and the connection: the username field, Join, Leave, Race Again,
\* and every event of the socket's life cycle.
NextLobby ==
    \/ HandleJoinRace
    \/ Exit
    \/ \E value \in Usernames : SetUsername(value)
    \/ JoinLobby
    \/ LeaveLobby
    \/ RaceAgain
    \/ ConnectEvent
    \/ \E reason \in Reasons : DisconnectEvent(reason)
    \/ ReconnectAttemptEvent
    \/ ReconnectEvent
    \/ ReconnectErrorEvent
    \/ ConnectErrorEvent
    \/ \E data \in { [raceText |-> <<"a">>, startTime |-> 1] } : RaceStartEvent(data)
    \/ \E data \in ResultSets : RaceResultsEvent(data)
    \/ \E error \in Errors : RaceErrorEvent(error)
    \/ \E error \in Errors : LobbyErrorEvent(error)

SpecLobby == Init /\ [][NextLobby]_vars

\* Every event of the coordinator and of the connection during a race, with
\* typing, Race Again and Leave.
NextEvents ==
    \/ HandleJoinRace
    \/ Exit
    \/ LeaveLobby
    \/ RaceAgain
    \/ \E key \in {"a", "Backspace"} : KeyPress(key)
    \/ ConnectEvent
    \/ \E reason \in Reasons : DisconnectEvent(reason)
    \/ \E data \in { d \in LobbyStates : Len(d.users) <= 1 /\ d.status /= "countdown" } :
          LobbyStateEvent(data)
    \/ \E data \in { d \in RaceStarts : d.startTime = 1 } : RaceStartEvent(data)
    \/ \E data \in { d \in ProgressEvents : d.userId = "u1" } : OpponentProgressEvent(data)
    \/ \E data \in { d \in UserFinishes : d.rank = 1 } : UserFinishedEvent(data)
    \/ \E data \in { d \in OpponentFinishes : d.userId = "u1" } : OpponentFinishedEvent(data)
    \/ \E data \in ResultSets : RaceResultsEvent(data)
    \/ \E error \in { e \in Errors : e.message = "" } : RaceErrorEvent(error)
    \/ \E error \in { e \in Errors : e.message = "" } : LobbyErrorEvent(error)
    \/ \E data \in { d \in Timeouts : d.message = "" /\ d.unfinishedUsers = << >> } :
          RaceTimeoutEvent(data)

SpecEvents == Init /\ [][NextEvents]_vars

\* Typing alone: one connected participant types races of every text at
\* every clock value.
NextStats ==
    \/ HandleJoinRace
    \/ Exit
    \/ ConnectEvent
    \/ \E data \in RaceStarts : RaceStartEvent(data)
    \/ \E key \in Keys : KeyPress(key)
    \/ ProgressInterval
    \/ Tick

SpecStats == Init /\ [][NextStats]_vars

\* The screens of App: the solo test, its results, and entering and leaving
\* the multiplayer screen.
NextApp ==
    \/ StartSoloTest
    \/ \E key \in Keys : TestKeyPress(key)
    \/ BackToHome
    \/ HandleRestart
    \/ HandleJoinRace
    \/ Exit
    \/ Tick

SpecApp == Init /\ [][NextApp]_vars

\* handleProgressUpdate and handleRaceComplete called with any argument, in
\* any state of a race.
NextCallbacks ==
    \/ HandleJoinRace
    \/ Exit
    \/ ConnectEvent
    \/ \E reason \in Reasons : DisconnectEvent(reason)
    \/ \E data \in RaceStarts : RaceStartEvent(data)
    \/ \E data \in ResultSets : RaceResultsEvent(data)
    \/ RaceAgain
    \/ Tick
    \/ \E stats \in StatsInputs : RaceCompleteCall(stats)
    \/ \E progress \in JSValues : ProgressUpdateCall(progress)
    \/ \E value \in { << >>, <<"a">> } : SetUsername(value)
    \/ JoinLobby

SpecCallbacks == Init /\ [][NextCallbacks]_vars

\* One session: the coordinator and the clients of its participants.
NextSession ==
    \/ \E p \in Participants : ClientRaceFinished(p)
    \/ \E p \in Participants : CoordinatorAccept(p)
    \/ \E p \in Participants : CoordinatorReject(p)
    \/ \E p \in Participants : ClientReceive(p)

SpecSession == Init /\ [][NextSession]_vars

\* ----------------------------------------------------------------- claims

NoRaceFinished(msgs) == \A k \in DOMAIN msgs : msgs[k].type /= "raceFinished"

InRace == Mounted /\ lobbyState.status = "racing" /\ raceStartTime /= NULL

\* C1 (as stated; SpecRace): within one race the client emits raceFinished at
\* most once, whatever keys are pressed after the completion and whenever the
\* userFinished acknowledgement arrives.
C1_CompletionAtMostOnce == finishEmits <= 1

\* C2 (as stated; SpecRoster): within one race the progress a client stores
\* for a roster member never decreases, and the progress values it emits in
\* progressUpdate never decrease.
C2_ProgressNonDecreasing ==
    [][ (InRace /\ InRace' /\ lastEvent' /= "raceStart") =>
          /\ \A i \in DOMAIN lobbyState.users : \A j \in DOMAIN lobbyState'.users :
                lobbyState.users[i].id = lobbyState'.users[j].id =>
                    lobbyState'.users[j].progress >= lobbyState.users[i].progress
          /\ \A k \in DOMAIN emitted' :
                (emitted'[k].type = "progressUpdate" /\ lastProgressSent /= NULL) =>
                    emitted'[k].progress.v >= lastProgressSent ]_vars

\* C3 (SpecSession): the ranks the coordinator has assigned are 1..k in the
\* order it accepted the completions, without duplicate or gap, and the ranks
\* a client has recorded (its own from userFinished, a roster member's from
\* opponentFinished) are those ranks, distinct for distinct participants.
Recorded(c) ==
    { <<views[c].lobbyState.users[i].id, views[c].lobbyState.users[i].rank>> :
        i \in { j \in DOMAIN views[c].lobbyState.users :
                    views[c].lobbyState.users[j].finished } }
    \cup (IF Truthy(views[c].myRank) THEN { <<c, views[c].myRank>> } ELSE {})

C3_RanksArePermutation ==
    /\ \A i \in DOMAIN coordinator.accepted :
          coordinator.rank[coordinator.accepted[i]] = i
    /\ \A i, j \in DOMAIN coordinator.accepted :
          coordinator.accepted[i] = coordinator.accepted[j] => i = j
    /\ \A p \in Participants :
          coordinator.rank[p] /= NULL =>
              \E i \in DOMAIN coordinator.accepted : coordinator.accepted[i] = p
    /\ \A c \in Participants :
          /\ \A a, b \in Recorded(c) : a[1] /= b[1] => a[2] /= b[2]
          /\ \A a \in Recorded(c) : coordinator.rank[a[1]] = a[2]

\* Two participants sent their completion twice; a client knows its own rank 2
\* and the rank 1 of the other.
C3_Witness ==
    \E c, d \in Participants :
        /\ c /= d
        /\ sends[c] = 2 /\ sends[d] = 2
        /\ views[c].myRank = 2
        /\ <<d, 1>> \in Recorded(c)

\* C4 (as stated; SpecCallbacks): every emitted progressUpdate has a progress
\* in [0,100], for every input; every emitted raceFinished has finalWPM >= 0,
\* finalAccuracy in [0,100] and timeTaken >= 0.
InRange(x, lo, hi) == x.t = "number" /\ lo <= x.v /\ x.v <= hi

C5_Frame ==
    /\ raceText' = raceText
    /\ raceStartTime' = raceStartTime
    /\ myRank' = myRank
    /\ lobbyState' = lobbyState
    /\ raceResults' = raceResults

C5_MalformedSetsError ==
    [][ lastEvent' = "handleRaceComplete(malformed)" =>
          /\ NoRaceFinished(emitted')
          /\ connectionError' = "Invalid race completion data. Please try again."
          /\ C5_Frame ]_vars

\* C5 (amended; SpecCallbacks): as C5, but the error message is set only when
\* a socket exists, a race start time is set and the client is connected;
\* otherwise the call changes nothing, the error message included.
C5_MalformedRejected ==
    [][ lastEvent' = "handleRaceComplete(malformed)" =>
          /\ NoRaceFinished(emitted')
          /\ connectionError' =
                (IF Truthy(socket) /\ Truthy(raceStartTime) /\ isConnected
                 THEN "Invalid race completion data. Please try again."
                 ELSE connectionError)
          /\ C5_Frame ]_vars

\* A malformed completion was rejected during a race, with the error set.
C5_Witness ==
    /\ lastEvent = "handleRaceComplete(malformed)"
    /\ connectionError = "Invalid race completion data. Please try again."
    /\ raceText /= << >>
    /\ Truthy(raceStartTime)

\* C6 (as stated; SpecRoster): an opponentProgress event changes the stored
\* progress of a roster member only if the client has processed raceStart
\* (status is racing), whatever the arrival order of the events.
C6_ProgressOnlyWhileRacing ==
    [][ (lastEvent' = "opponentProgress" /\ lobbyState'.users /= lobbyState.users) =>
          (lobbyState.status = "racing" /\ raceStartTime /= NULL) ]_vars

\* C7 (SpecRace): the timeTaken of every emitted raceFinished is the clock at
\* emission minus the startTime of the last raceStart, clamped at 0 (in
\* milliseconds); it is a function of these two only, so it does not depend
\* on the time of the first key and is the same for two clients with the same
\* raceStart and clock.
C7_ElapsedFromSharedStart ==
    \A k \in DOMAIN emitted :
        emitted[k].type = "raceFinished" =>
            /\ Truthy(startReceived)
            /\ emitted[k].timeTakenMs = Max(0, now - startReceived)

\* A raceFinished with a positive timeTaken, typed by a participant whose
\* first key came later than the shared start.
C7_Witness ==
    \E k \in DOMAIN emitted :
        /\ emitted[k].type = "raceFinished"
        /\ emitted[k].timeTakenMs > 0
        /\ startTime > startReceived

\* C8 (as stated; SpecRace): once raceTimeout has been received, the typing
\* interface is not active and no raceFinished is emitted for that race.
C8_NoFinishAfterTimeout ==
    timedOut => (~(TypingMounted /\ IsActive) /\ NoRaceFinished(emitted))

\* C9 (SpecRace): a disconnect event and a connect event each leave race
\* text, race start time, typed position, own rank, roster and status
\* unchanged; after the disconnect the typing interface is inactive, after
\* the connect it is active exactly if no rank is assigned; and after the
\* connect a participant one key from the end emits raceFinished with that key.
C9_Frame ==
    /\ raceText' = raceText
    /\ raceStartTime' = raceStartTime
    /\ typedText' = typedText
    /\ currentIndex' = currentIndex
    /\ myRank' = myRank
    /\ lobbyState' = lobbyState

FinishingKeyEmits ==
    \A key \in Printable :
        LET r == handleKeyPress(key)
        IN  /\ r.complete /= << >>
            /\ handleRaceComplete(r.complete[1]).emit /= << >>
            /\ ~NoRaceFinished(handleRaceComplete(r.complete[1]).emit)

CanStillFinish ==
    ( /\ TypingMounted
      /\ ~Truthy(myRank)
      /\ Truthy(raceStartTime)
      /\ Truthy(startTime)
      /\ currentIndex >= Len(raceText) - 1 ) => (IsActive /\ FinishingKeyEmits)

C9_ReconnectKeepsStanding ==
    [][ /\ lastEvent' = "disconnect" => (C9_Frame /\ ~IsActive')
        /\ lastEvent' = "connect" =>
              /\ C9_Frame
              /\ IsActive' <=> ~Truthy(myRank')
              /\ CanStillFinish' ]_vars

\* A joined participant reconnected in the middle of a race, one key from the end.
C9_Witness ==
    /\ lastEvent = "connect"
    /\ hasJoined
    /\ TypingMounted
    /\ currentIndex > 0
    /\ currentIndex = Len(raceText) - 1
    /\ IsActive
    /\ Truthy(raceStartTime)

\* C10 (SpecLobby): a connect event of a joined client (hasJoined, wasInLobby,
\* non-blank username) emits exactly one joinLobby, marked reconnect, with the
\* trimmed username of its Join; the username does not change while joined;
\* a connect event of a client that has not joined (never, or after
\* leaveLobby) emits nothing.
C10_ReconnectSameIdentity ==
    /\ [] ( lastEvent = "connect" =>
              /\ (hasJoined /\ wasInLobby /\ Trim(username) /= << >>) =>
                    /\ emitted = << [type |-> "joinLobby", username |-> joinedName,
                                      reconnect |-> TRUE] >>
                    /\ joinedName = Trim(joinedName)
                    /\ joinedName /= << >>
              /\ ~wasInLobby => emitted = << >> )
    /\ [][ (hasJoined /\ hasJoined') => username' = username ]_vars

\* A reconnect of a participant whose username field has surrounding blanks.
C10_Witness ==
    /\ lastEvent = "connect"
    /\ hasJoined
    /\ emitted /= << >>
    /\ username /= Trim(username)

\* C11 (SpecEvents): a raceError or lobbyError event changes only the error
\* message: status, roster, countdown, race text, start time, own rank,
\* standings, results, join flags, connection flags and the typed position
\* are unchanged; an active typing interface stays mounted and active, and a
\* participant one key from the end still emits raceFinished with that key.
C11_Frame ==
    /\ lobbyState' = lobbyState
    /\ raceText' = raceText
    /\ raceStartTime' = raceStartTime
    /\ myRank' = myRank
    /\ currentStandings' = currentStandings
    /\ raceResults' = raceResults
    /\ <<username, hasJoined, wasInLobby>>' = <<username, hasJoined, wasInLobby>>
    /\ isConnected' = isConnected
    /\ isReconnecting' = isReconnecting
    /\ <<typedText, currentIndex, startTime>>' = <<typedText, currentIndex, startTime>>
    /\ sockStatus' = sockStatus

C11_ErrorsAreNonFatal ==
    [][ lastEvent' \in {"raceError", "lobbyError"} =>
          /\ C11_Frame
          /\ (TypingMounted /\ IsActive) => (TypingMounted' /\ IsActive' /\ CanStillFinish') ]_vars

\* An error event arrived while the participant was typing, one key from the end.
C11_Witness ==
    /\ lastEvent \in {"raceError", "lobbyError"}
    /\ connectionError \notin {NoError}
    /\ TypingMounted /\ IsActive
    /\ Truthy(startTime)
    /\ currentIndex = Len(raceText) - 1

\* C12 (as stated; SpecLobby): every disconnect event, whatever its reason,
\* records no error message and leaves the client reconnecting (isConnected
\* false, isReconnecting true); a connect event leaves it connected, not
\* reconnecting, with no error.
C12_EveryDisconnectReconnects ==
    [][ /\ lastEvent' = "disconnect" =>
              /\ connectionError' = connectionError
              /\ ~isConnected'
              /\ isReconnecting'
        /\ lastEvent' = "connect" =>
              /\ isConnected'
              /\ ~isReconnecting'
              /\ connectionError' = NoError ]_vars

\* C12 (amended; SpecLobby): a disconnect event whose reason is not
\* 'io server disconnect' (the socket goes on to reconnect) records no error
\* message and leaves the client reconnecting; a disconnect by the server
\* sets the error 'Disconnected from server. Please refresh the page.' and
\* leaves isReconnecting as it was; a connect event leaves the client
\* connected, not reconnecting, with no error.
C12_TransportDisconnectReconnects ==
    [][ /\ (lastEvent' = "disconnect" /\ sockStatus' = "reconnecting") =>
              /\ connectionError' = connectionError
              /\ ~isConnected'
              /\ isReconnecting'
        /\ (lastEvent' = "disconnect" /\ sockStatus' = "disconnected") =>
              /\ connectionError' = "Disconnected from server. Please refresh the page."
              /\ ~isConnected'
              /\ isReconnecting' = isReconnecting
        /\ lastEvent' = "connect" =>
              /\ isConnected'
              /\ ~isReconnecting'
              /\ connectionError' = NoError ]_vars

\* A joined participant's connection was lost and the client is reconnecting.
C12_Witness ==
    /\ lastEvent = "disconnect"
    /\ sockStatus = "reconnecting"
    /\ hasJoined
    /\ isReconnecting /\ ~isConnected

\* C13 (SpecLobby): every joinLobby the client emits, by Join or by a
\* reconnect, carries a username that is non-empty and neither starts nor
\* ends with a blank, whatever the username field holds; a Join with a blank
\* or whitespace-only field emits nothing and leaves the join flags as they
\* were (hasJoined unset).
WellFormedName(u) == u /= << >> /\ Head(u) /= " " /\ u[Len(u)] /= " "

C13_JoinNameTrimmed ==
    /\ [] (\A k \in DOMAIN emitted :
              emitted[k].type = "joinLobby" => WellFormedName(emitted[k].username))
    /\ [][ (lastEvent' = "joinLobby" /\ (\A i \in DOMAIN username : username[i] = " ")) =>
              /\ emitted' = << >>
              /\ ~hasJoined'
              /\ wasInLobby' = wasInLobby ]_vars

\* A Join from a field with surrounding blanks.
C13_Witness ==
    /\ lastEvent = "joinLobby"
    /\ emitted /= << >>
    /\ username /= << >>
    /\ (Head(username) = " " \/ username[Len(username)] = " ")

\* C14 (as stated; SpecLobby): after Race Again the client has status
\* waiting, no race text, no race start time, no own rank, no standings and
\* no results, whatever the state before; username and the connection flags
\* (isConnected, isReconnecting) are unchanged.
C14_RaceAgainResets ==
    [][ lastEvent' = "raceAgain" =>
          /\ lobbyState'.status = "waiting"
          /\ raceText' = << >>
          /\ raceStartTime' = NULL
          /\ myRank' = NULL
          /\ currentStandings' = << >>
          /\ raceResults' = NoResults
          /\ username' = username
          /\ isConnected' = isConnected
          /\ isReconnecting' = isReconnecting ]_vars

\* C15 (as stated; SpecLobby): whenever a connected participant triggers
\* Race Again from the results view, a raceAgain message is emitted.
C15_RaceAgainIsRequested ==
    [][ (lastEvent' = "raceAgain" /\ isConnected) =>
          \E k \in DOMAIN emitted' : emitted'[k].type = "raceAgain" ]_vars

C17_RaceTextImmutable ==
    [][ /\ raceText' /= raceText =>
              lastEvent' \in {"raceStart", "raceAgain", "leaveLobby", "exit"}
        /\ lastEvent' \in {"lobbyState", "opponentProgress", "userFinished",
                           "opponentFinished", "raceResults", "raceError", "lobbyError",
                           "raceTimeout", "connect", "disconnect"} =>
              raceText' = raceText ]_vars

\* The race is over and the results have arrived; the text of the race is still held.
C17_Witness ==
    /\ lastEvent = "raceResults"
    /\ raceText /= << >>
    /\ Truthy(myRank)
    /\ lobbyState.users /= << >>

\* C18 (SpecStats): for every text, every typed string (blanks and strings
\* longer than the text included) and every start not later than the clock,
\* calculateStats returns an accuracy in [0,100] that is 100 when nothing has
\* been typed, wpm >= 0, timeTaken >= 0, and correctChars + incorrectChars =
\* totalChars = the length of the typed string.
MaxTyped == 3

TypedStrings == UNION { [1 .. n -> {"a", "b", " "}] : n \in 0 .. MaxTyped }

C18_StatsInRange ==
    \A typed \in TypedStrings : \A start \in 1 .. now :
        LET st == calculateStats(typed, Len(typed), start)
        IN  /\ InRange(st.accuracy, 0, 100)
            /\ typed = << >> => st.accuracy = Num(100)
            /\ st.wpm.t = "number" /\ st.wpm.v >= 0
            /\ st.timeTakenMs >= 0
            /\ st.correctChars >= 0 /\ st.incorrectChars >= 0
            /\ st.correctChars + st.incorrectChars = st.totalChars
            /\ st.totalChars = Len(typed)

\* The stats of a completed text with one wrong character of two were passed
\* to onComplete and sent.
C18_Witness ==
    /\ lastEvent = "keyPress"
    /\ \E k \in DOMAIN emitted :
          /\ emitted[k].type = "raceFinished"
          /\ emitted[k].finalAccuracy = Num(50)
          /\ emitted[k].finalWPM.v > 0

\* C19 (as stated; SpecRoster): the stored users list keeps the order in
\* which the coordinator delivered it: a raceStart, opponentProgress or
\* opponentFinished event, with the display of the race track that follows
\* it, leaves the order of the stored users unchanged.
UserOrder(lobby) == [i \in DOMAIN lobby.users |-> lobby.users[i].id]

C19_RosterKeepsOrder ==
    [][ lastEvent' \in {"raceStart", "opponentProgress", "opponentFinished"} =>
          UserOrder(lobbyState') = UserOrder(lobbyState) ]_vars

\* C20 (as stated; SpecLobby): a Join that emits sends exactly one joinLobby,
\* not marked reconnect, on a connection that stays open (the Join does not
\* close the socket that carried it), and the step that follows a Join, with
\* no disconnect event in between, emits no joinLobby marked reconnect.
C20_JoinKeepsConnection ==
    [][ /\ (lastEvent' = "joinLobby" /\ emitted' /= << >>) =>
              /\ Len(emitted') = 1
              /\ emitted'[1].type = "joinLobby" /\ ~emitted'[1].reconnect
              /\ sockStatus' = "connected"
              /\ isConnected'
        /\ lastEvent = "joinLobby" =>
              \A k \in DOMAIN emitted' :
                  emitted'[k].type = "joinLobby" => ~emitted'[k].reconnect ]_vars

\* C21 (SpecLobby): at most one socket is open at any time: no socket of an
\* earlier run of the connection effect is open, also after the effect has
\* re-run for a change of username, hasJoined or wasInLobby; no socket is
\* open while the component is not mounted; and every step that emits starts
\* with the newest socket in the state and no older socket open.
OpenSockets == olderOpen + (IF sockStatus \in {"connecting", "connected", "reconnecting"}
                            THEN 1 ELSE 0)

C22_Frame ==
    <<appVars, sockVars, raceVars, joinVars, connVars, typingVars>>' =
        <<appVars, sockVars, raceVars, joinVars, connVars, typingVars>>

C22_EmitsOnlyWhenConnected ==
    [][ /\ \A k \in DOMAIN emitted' :
              /\ (emitted'[k].type = "joinLobby" /\ ~emitted'[k].reconnect) =>
                    (isConnected /\ Truthy(socket))
              /\ emitted'[k].type = "progressUpdate" =>
                    (isConnected /\ lobbyState.status = "racing")
              /\ emitted'[k].type = "raceFinished" =>
                    (isConnected /\ Truthy(raceStartTime))
        /\ (lastEvent' = "joinLobby" /\ ~isConnected) =>
              (emitted' = << >> /\ C22_Frame)
        /\ (lastEvent' = "handleProgressUpdate"
              /\ ~(isConnected /\ lobbyState.status = "racing")) =>
              (emitted' = << >> /\ C22_Frame)
        /\ (lastEvent' \in {"handleRaceComplete", "handleRaceComplete(malformed)"}
              /\ ~(isConnected /\ Truthy(raceStartTime))) =>
              (emitted' = << >> /\ C22_Frame) ]_vars

\* handleProgressUpdate was called during a race while disconnected and
\* emitted nothing.
C22_Witness ==
    /\ lastEvent = "handleProgressUpdate"
    /\ emitted = << >>
    /\ ~isConnected
    /\ lobbyState.status = "racing"
    /\ Truthy(socket)

\* C23 (as stated; SpecStats): in every reachable state of the typing
\* interface 0 <= currentIndex <= length of the text and the typed string has
\* currentIndex characters; Backspace pressed at index 0 on an active
\* interface changes nothing (typed string, index, timer); a change of the
\* text resets the index to 0, the typed string to empty and the timer to unset.
C23_IndexInRange ==
    /\ 0 <= currentIndex /\ currentIndex <= Len(raceText)
    /\ Len(typedText) = currentIndex

C23_TextChangeResets ==
    raceText' /= raceText => (currentIndex' = 0 /\ typedText' = << >> /\ startTime' = NULL)

C23_TypingStateWellFormed ==
    /\ [] C23_IndexInRange
    /\ [] ( (TypingMounted /\ IsActive /\ currentIndex = 0) =>
              handleKeyPress("Backspace") =
                  [typedText |-> typedText, currentIndex |-> currentIndex,
                   startTime |-> startTime, complete |-> << >>] )
    /\ [][ C23_TextChangeResets ]_vars

C25_FinalKeyCompletes(key) ==
    LET r == handleKeyPress(key)
    IN  /\ r.currentIndex = Len(raceText)
        /\ Len(r.complete) = 1
        /\ r.complete[1].totalChars = Len(raceText)

\* C25 (as stated; SpecStats): for every non-empty text, of length 1
\* included, the key press that types the final character on an active
\* interface calls onComplete exactly once, with stats computed over the
\* full typed string, whether or not the typed characters are correct.
C25_FinalCharacterCompletes ==
    (TypingMounted /\ IsActive /\ currentIndex = Len(raceText) - 1) =>
        \A key \in Printable : C25_FinalKeyCompletes(key)

\* The step shows the results screen.
C26_EntersResults == appState' = "results" /\ appState /= "results"

\* Some key completes the test of the typing screen with the stats the step stores.
C26_ByCompletion ==
    /\ appState = "typing"
    /\ \E key \in Keys : LET r == handleKeyPress(key)
                          IN  r.complete /= << >> /\ results' = r.complete

\* C26 (SpecApp): in every reachable state the screen is one of home,
\* typing, results and multiplayer, and on the results screen the stored
\* results are non-null; a step enters the results screen only by the
\* completion of a test, and Try Again leaves the results screen with the
\* results cleared and the typing screen shown with a sample text.
C26_ScreensAndResults ==
    /\ [] ( /\ appState \in {"home", "typing", "results", "multiplayer"}
            /\ appState = "results" => results /= NoResults )
    /\ [][ /\ C26_EntersResults => C26_ByCompletion
           /\ lastEvent' = "handleRestart" =>
                 /\ appState = "results"
                 /\ results' = NoResults
                 /\ appState' = "typing"
                 /\ testText' \in sampleTexts
                 /\ typedText' = << >> /\ currentIndex' = 0 ]_vars

\* Try Again was pressed on the results screen of a completed test.
C26_Witness ==
    /\ lastEvent = "handleRestart"
    /\ appState = "typing"
    /\ results = NoResults
    /\ testText \in sampleTexts

====
